---- MODULE Spec2Model ----
(***************************************************************************)
(* Order lifecycle of the WorkNet marketplace backend.                     *)
(*                                                                         *)
(* The model follows services/ordres_service.py (class OrdersService).     *)
(* Every handler is a sequence of store operations (find_one, update_one,  *)
(* insert_one); each store operation is atomic, and handlers run on the    *)
(* worker threads of the web server, so the store operations of two calls  *)
(* interleave.  A handler is therefore modelled by one action per store    *)
(* operation; the local computation around a store operation (validation,  *)
(* the state and role checks, the return) belongs to the same action.      *)
(*                                                                         *)
(* An order document carries the fields the handlers read and write,       *)
(* except updated_at; a timeline entry carries its action and user_id, a   *)
(* delivery file its uploaded_at.  The generated _id values, the entries'  *)
(* timestamps and the extra data of an entry are not represented.          *)
(***************************************************************************)
EXTENDS Integers, Sequences, FiniteSets, TLC

(***************************************************************************)
(* Bounds of the model.                                                    *)
(***************************************************************************)
NThreads == 2          \* worker threads serving calls concurrently
MaxCalls == 3          \* calls that pass their checks in a behaviour of SpecEarly
MaxWorkflowCalls == 6  \* the same in a behaviour of SpecWorkflow

Threads == 1..NThreads
OrderIds == {1}        \* order ids the callers use; the id exists once created

Users == {"u1", "u2", "u3"}     \* authenticated caller identities
ClientIds == {"u1"}             \* data["client_id"] given to create_order
FreelancerIds == {"u1", "u2"}   \* data["freelancer_id"] given to create_order
GigId == "g1"                   \* data["gig_id"] given to create_order
Prices == {-1, 0, 100}          \* data["price"]
Quantities == {0, 2}            \* data["quantity"]
DateArgs == {-1, 0, 10}         \* expected_delivery: unparseable, None, a date
Texts == {0, 1}                 \* notes / message / reason: empty or None, non-empty
FileCounts == {0, 1}            \* len(files)
DayArgs == {1}                  \* data["days"]
Resolutions == {2}              \* data of resolve_dispute: a resolution "completed"
\* the fields argument of update_order, the data argument of update_order_admin
UpdateFields == {[timeline |-> <<>>], [status |-> "completed"], [status |-> "paid"]}

Null == 0                       \* None in a timestamp or date field
BadDate == -1                   \* a string datetime.fromisoformat rejects
NoOrder == [status |-> "absent"]

VARIABLES
    orders,      \* db["orders"]: order id -> document, or NoOrder
    payments,    \* db["payments"]: the inserted documents, in insertion order
    gigs,        \* db["gigs"]: the counters of the gig GigId
    pc,          \* per thread: the store operation the handler executes next
    cur,         \* per thread: the running call, its arguments and locals
    result,      \* per thread: the value the finished call returned, until the
                 \* response has been sent
    nCalls,      \* number of calls that passed their checks; also the clock
    limit,       \* the number of such calls the behaviour is bounded to
    users        \* db.users: user id -> the totalEarnings of the user's document

vars == <<orders, payments, gigs, pc, cur, result, nCalls, limit, users>>

NoEarnings == [u \in Users |-> [totalEarnings |-> 0]]

NoCall == [op |-> "none", user |-> "none", oid |-> 0, a |-> 0, val |-> 0, seen |-> "none"]
NoResult == [op |-> "none", user |-> "none", oid |-> 0, seen |-> "none", ok |-> FALSE,
             err |-> "none"]

Init ==
    /\ orders = [o \in OrderIds |-> NoOrder]
    /\ payments = <<>>
    /\ gigs = [total_orders |-> 0, total_earning |-> 0]
    /\ pc = [t \in Threads |-> "idle"]
    /\ cur = [t \in Threads |-> NoCall]
    /\ result = [t \in Threads |-> NoResult]
    /\ nCalls = 0
    /\ limit = MaxCalls
    /\ users = NoEarnings

(***************************************************************************)
(* Helpers shared by the handlers.                                         *)
(***************************************************************************)
\* datetime.utcnow(): the clock advances when a call begins
utcnow == nCalls

\* update_one(filter, {"$set": fields}): overwrite the named fields of a
\* document; a filter that matches no document changes nothing
Set(o, fields) ==
    IF orders[o] = NoOrder THEN orders
    ELSE [orders EXCEPT ![o] = fields @@ orders[o]]

\* the handler returns {"success": False, "error": err} from its first step
Fail(t, op, u, o, seen, err) ==
    /\ result' = [result EXCEPT ![t] =
          [op |-> op, user |-> u, oid |-> o, seen |-> seen, ok |-> FALSE, err |-> err]]
    /\ UNCHANGED <<orders, payments, gigs, pc, cur, nCalls, limit, users>>

\* the handler passed its checks; its next store operation is `next`
Proceed(t, op, u, o, a, val, seen, next) ==
    /\ nCalls < limit
    /\ pc' = [pc EXCEPT ![t] = next]
    /\ cur' = [cur EXCEPT ![t] =
          [op |-> op, user |-> u, oid |-> o, a |-> a, val |-> val, seen |-> seen]]
    /\ nCalls' = nCalls + 1
    /\ UNCHANGED <<result, limit, users>>

\* a later store operation of the running call was done; `next` follows
Step(t, next) ==
    /\ pc' = [pc EXCEPT ![t] = next]
    /\ UNCHANGED <<cur, result, nCalls, limit, users>>

\* a call is taken by the first idle worker thread, once the responses of
\* the finished calls have been sent (which thread serves a call, and when a
\* response leaves, is invisible to the handlers: no handler reads result)
Idle(t) ==
    /\ pc[t] = "idle"
    /\ \A x \in Threads : x < t => pc[x] # "idle"
    /\ \A x \in Threads : result[x] = NoResult

\* the call thread t runs is at the store operation `at` of handler `op`
At(t, op, at) == pc[t] = at /\ cur[t].op = op

\* the action name a handler hands to _add_timeline
TimelineAction(op) ==
    CASE op = "create_order"      -> "order_created"
      [] op = "confirm_order"     -> "order_confirmed"
      [] op = "start_order"       -> "order_started"
      [] op = "deliver_order"     -> "order_delivered"
      [] op = "request_revision"  -> "revision_requested"
      [] op = "accept_delivery"   -> "delivery_accepted"
      [] op = "complete_order"    -> "order_completed"
      [] op = "dispute_order"     -> "order_disputed"
      [] op = "cancel_order"      -> "order_cancelled"
      [] op = "extend_deadline"   -> "deadline_extended"
      [] op = "resolve_dispute"   -> "dispute_resolved"
      [] op = "update_order"      -> "order_updated"
      [] op = "update_order_admin" -> "order_updated_admin"
      [] op = "accept_order"      -> "order_accepted"

\* the user id a handler hands to _add_timeline (None for resolve_dispute,
\* update_order and update_order_admin)
TimelineUser(c) == c.user

\* _add_timeline followed by return {"success": True}: the last store
\* operation of every handler that reaches it
add_timeline(t) ==
    /\ pc[t] = "timeline"
    /\ LET c == cur[t]
           entry == [action |-> TimelineAction(c.op), user_id |-> TimelineUser(c)]
       IN /\ orders' = IF orders[c.oid] = NoOrder THEN orders
                       ELSE [orders EXCEPT ![c.oid].timeline = Append(@, entry)]
          /\ result' = [result EXCEPT ![t] =
                [op |-> c.op, user |-> c.user, oid |-> c.oid, seen |-> c.seen,
                 ok |-> TRUE, err |-> "none"]]
    /\ pc' = [pc EXCEPT ![t] = "idle"]
    /\ cur' = [cur EXCEPT ![t] = NoCall]
    /\ UNCHANGED <<payments, gigs, nCalls, limit, users>>

\* _add_timeline when building the entry or the $push raises: the except
\* clause drops the exception and the handler returns {"success": True}
add_timeline_raises(t) ==
    /\ pc[t] = "timeline"
    /\ result' = [result EXCEPT ![t] =
          [op |-> cur[t].op, user |-> cur[t].user, oid |-> cur[t].oid,
           seen |-> cur[t].seen, ok |-> TRUE, err |-> "none"]]
    /\ pc' = [pc EXCEPT ![t] = "idle"]
    /\ cur' = [cur EXCEPT ![t] = NoCall]
    /\ UNCHANGED <<orders, payments, gigs, nCalls, limit, users>>

\* the status find_one returns for an order id
StatusOf(o) == orders[o].status

(***************************************************************************)
(* create_order                                                            *)
(***************************************************************************)
create_order(t, c, f, p, q) ==
    /\ Idle(t)
    /\ IF p = 0 \/ q = 0
       THEN Fail(t, "create_order", c, 0, "none", "Missing field")
       ELSE \E o \in OrderIds :
              /\ orders[o] = NoOrder
              /\ orders' = [orders EXCEPT ![o] =
                    [gig_id |-> GigId, client_id |-> c, freelancer_id |-> f,
                     price |-> p, quantity |-> q,
                     delivery_files |-> <<>>, timeline |-> <<>>,
                     status |-> "pending",
                     created_at |-> utcnow + 1,
                     expected_delivery |-> Null, started_at |-> Null,
                     delivered_at |-> Null, completed_at |-> Null,
                     cancelled_at |-> Null, cancel_reason |-> Null,
                     dispute_resolution |-> Null]]
              /\ Proceed(t, "create_order", c, o, p, 0, "none", "timeline")
              /\ UNCHANGED <<payments, gigs>>

(***************************************************************************)
(* confirm_order: pending -> accepted, by the client                       *)
(***************************************************************************)
\* a variant that writes the new status before it checks the caller
confirm_order_write_first(t, u, o) ==
    /\ Idle(t)
    /\ LET op == "confirm_order" IN
       IF orders[o] = NoOrder THEN Fail(t, op, u, o, "absent", "Order not found")
       ELSE IF StatusOf(o) # "pending"
            THEN Fail(t, op, u, o, StatusOf(o), "Order must be pending")
       ELSE IF orders[o].client_id # u
            THEN /\ orders' = Set(o, [status |-> "accepted"])
                 /\ result' = [result EXCEPT ![t] =
                       [op |-> op, user |-> u, oid |-> o, seen |-> StatusOf(o),
                        ok |-> FALSE, err |-> "Not authorized"]]
                 /\ UNCHANGED <<payments, gigs, pc, cur, nCalls, limit, users>>
       ELSE /\ Proceed(t, op, u, o, 0, 0, StatusOf(o), "update")
            /\ UNCHANGED <<orders, payments, gigs>>

confirm_order(t, u, o) ==
    /\ Idle(t)
    /\ LET op == "confirm_order" IN
       IF orders[o] = NoOrder THEN Fail(t, op, u, o, "absent", "Order not found")
       ELSE IF StatusOf(o) # "pending"
            THEN Fail(t, op, u, o, StatusOf(o), "Order must be pending")
       ELSE IF orders[o].client_id # u
            THEN Fail(t, op, u, o, StatusOf(o), "Not authorized")
       ELSE /\ Proceed(t, op, u, o, 0, 0, StatusOf(o), "update")
            /\ UNCHANGED <<orders, payments, gigs>>

confirm_order_update(t) ==
    /\ At(t, "confirm_order", "update")
    /\ orders' = Set(cur[t].oid, [status |-> "accepted"])
    /\ Step(t, "timeline")
    /\ UNCHANGED <<payments, gigs>>

(***************************************************************************)
(* start_order: accepted -> in_progress, by the freelancer                 *)
(***************************************************************************)
start_order(t, u, o, d) ==
    /\ Idle(t)
    /\ LET op == "start_order" IN
       IF orders[o] = NoOrder \/ StatusOf(o) # "accepted"
       THEN Fail(t, op, u, o, StatusOf(o), "Order must be accepted first")
       ELSE IF orders[o].freelancer_id # u
            THEN Fail(t, op, u, o, StatusOf(o), "Not authorized")
       ELSE IF d = BadDate
            THEN Fail(t, op, u, o, StatusOf(o), "Invalid isoformat string")
       ELSE /\ Proceed(t, op, u, o, d, d, StatusOf(o), "update")
            /\ UNCHANGED <<orders, payments, gigs>>

start_order_update(t) ==
    /\ At(t, "start_order", "update")
    /\ orders' = Set(cur[t].oid,
          [status |-> "in_progress", expected_delivery |-> cur[t].val,
           started_at |-> utcnow])
    /\ Step(t, "timeline")
    /\ UNCHANGED <<payments, gigs>>

(***************************************************************************)
(* deliver_order: in_progress -> delivered, by the freelancer              *)
(***************************************************************************)
deliver_order(t, u, o, n) ==
    /\ Idle(t)
    /\ LET op == "deliver_order" IN
       IF orders[o] = NoOrder \/ StatusOf(o) # "in_progress"
       THEN Fail(t, op, u, o, StatusOf(o), "Order must be in progress")
       ELSE IF orders[o].freelancer_id # u
            THEN Fail(t, op, u, o, StatusOf(o), "Not authorized")
       ELSE IF n = 0
            THEN Fail(t, op, u, o, StatusOf(o), "Files required")
       ELSE /\ Proceed(t, op, u, o, n, utcnow + 1, StatusOf(o), "update")
            /\ UNCHANGED <<orders, payments, gigs>>

deliver_order_update(t) ==
    /\ At(t, "deliver_order", "update")
    /\ LET o == cur[t].oid
           delivered_files == [i \in 1..cur[t].a |-> [uploaded_at |-> cur[t].val]]
       IN orders' = IF orders[o] = NoOrder THEN orders
                    ELSE [orders EXCEPT ![o] =
                            [status |-> "delivered", delivered_at |-> utcnow,
                             delivery_files |-> orders[o].delivery_files \o delivered_files]
                            @@ orders[o]]
    /\ Step(t, "timeline")
    /\ UNCHANGED <<payments, gigs>>

(***************************************************************************)
(* request_revision: delivered -> revision_requested, by the client        *)
(***************************************************************************)
\* a variant without the check of the notes
request_revision_any_notes(t, u, o, notes) ==
    /\ Idle(t)
    /\ LET op == "request_revision" IN
       IF orders[o] = NoOrder \/ StatusOf(o) # "delivered"
       THEN Fail(t, op, u, o, StatusOf(o), "Order must be delivered")
       ELSE IF orders[o].client_id # u
            THEN Fail(t, op, u, o, StatusOf(o), "Not authorized")
       ELSE /\ Proceed(t, op, u, o, notes, 0, StatusOf(o), "update")
            /\ UNCHANGED <<orders, payments, gigs>>

request_revision(t, u, o, notes) ==
    /\ Idle(t)
    /\ LET op == "request_revision" IN
       IF notes = 0 THEN Fail(t, op, u, o, "none", "Reason required")
       ELSE IF orders[o] = NoOrder \/ StatusOf(o) # "delivered"
            THEN Fail(t, op, u, o, StatusOf(o), "Order must be delivered")
       ELSE IF orders[o].client_id # u
            THEN Fail(t, op, u, o, StatusOf(o), "Not authorized")
       ELSE /\ Proceed(t, op, u, o, notes, 0, StatusOf(o), "update")
            /\ UNCHANGED <<orders, payments, gigs>>

request_revision_update(t) ==
    /\ At(t, "request_revision", "update")
    /\ orders' = Set(cur[t].oid, [status |-> "revision_requested"])
    /\ Step(t, "timeline")
    /\ UNCHANGED <<payments, gigs>>

(***************************************************************************)
(* accept_delivery: records the acceptance in the timeline only            *)
(***************************************************************************)
accept_delivery(t, u, o) ==
    /\ Idle(t)
    /\ LET op == "accept_delivery" IN
       IF orders[o] = NoOrder \/ StatusOf(o) \notin {"delivered", "revision_delivered"}
       THEN Fail(t, op, u, o, StatusOf(o), "Order is not delivered")
       ELSE IF orders[o].client_id # u
            THEN Fail(t, op, u, o, StatusOf(o), "Not authorized")
       ELSE /\ Proceed(t, op, u, o, 0, 0, StatusOf(o), "timeline")
            /\ UNCHANGED <<orders, payments, gigs>>

(***************************************************************************)
(* complete_order: delivered -> completed, by the client; releases the     *)
(* payment and counts the order on the gig                                 *)
(***************************************************************************)
\* a variant that lets a completed order through the status check
CompletableStatusOrCompleted(s) == s \in {"delivered", "completed"}

\* the status complete_order requires of the order it read
CompletableStatus(s) == s = "delivered"

complete_order(t, u, o) ==
    /\ Idle(t)
    /\ LET op == "complete_order" IN
       IF orders[o] = NoOrder \/ ~CompletableStatus(StatusOf(o))
       THEN Fail(t, op, u, o, StatusOf(o), "Order must be delivered first")
       ELSE IF orders[o].client_id # u
            THEN Fail(t, op, u, o, StatusOf(o), "Not authorized")
       ELSE /\ Proceed(t, op, u, o, 0, orders[o].price * orders[o].quantity,
                       StatusOf(o), "update")
            /\ UNCHANGED <<orders, payments, gigs>>

complete_order_update(t) ==
    /\ At(t, "complete_order", "update")
    /\ orders' = Set(cur[t].oid,
          [status |-> "completed", completed_at |-> utcnow])
    /\ Step(t, "payment")
    /\ UNCHANGED <<payments, gigs>>

complete_order_payment(t) ==
    /\ At(t, "complete_order", "payment")
    /\ payments' = Append(payments,
          [order_id |-> cur[t].oid, amount |-> cur[t].val,
           payment_method |-> "wallet", status |-> "released"])
    /\ Step(t, "gig")
    /\ UNCHANGED <<orders, gigs>>

\* a variant that counts the order without adding its amount
complete_order_gig_count_only(t) ==
    /\ At(t, "complete_order", "gig")
    /\ gigs' = [total_orders |-> gigs.total_orders + 1,
                total_earning |-> gigs.total_earning]
    /\ Step(t, "timeline")
    /\ UNCHANGED <<orders, payments>>

complete_order_gig(t) ==
    /\ At(t, "complete_order", "gig")
    /\ gigs' = [total_orders |-> gigs.total_orders + 1,
                total_earning |-> gigs.total_earning + cur[t].val]
    /\ Step(t, "timeline")
    /\ UNCHANGED <<orders, payments>>

(***************************************************************************)
(* dispute_order: sets the status to disputed                              *)
(***************************************************************************)
dispute_order(t, u, o, message) ==
    /\ Idle(t)
    /\ LET op == "dispute_order" IN
       IF message = 0 THEN Fail(t, op, u, o, "none", "Message required")
       ELSE /\ orders' = [orders EXCEPT ![o] =
                  IF @ = NoOrder THEN @
                  ELSE [status |-> "disputed"] @@ @]
            /\ Proceed(t, op, u, o, message, 0, "none", "timeline")
            /\ UNCHANGED <<payments, gigs>>

(***************************************************************************)
(* cancel_order                                                            *)
(***************************************************************************)
\* a variant without the role check of an order in progress
cancel_order_client_only_check(t, u, o, reason) ==
    /\ Idle(t)
    /\ LET op == "cancel_order" IN
       IF orders[o] = NoOrder THEN Fail(t, op, u, o, "absent", "Order not found")
       ELSE IF StatusOf(o) \in {"completed", "cancelled"}
            THEN Fail(t, op, u, o, StatusOf(o), "Order cannot be cancelled")
       ELSE IF StatusOf(o) \in {"pending", "accepted"} /\ orders[o].client_id # u
            THEN Fail(t, op, u, o, StatusOf(o), "Only client can cancel")
       ELSE /\ Proceed(t, op, u, o, reason, 0, StatusOf(o), "update")
            /\ UNCHANGED <<orders, payments, gigs>>

cancel_order(t, u, o, reason) ==
    /\ Idle(t)
    /\ LET op == "cancel_order" IN
       IF orders[o] = NoOrder THEN Fail(t, op, u, o, "absent", "Order not found")
       ELSE IF StatusOf(o) \in {"completed", "cancelled"}
            THEN Fail(t, op, u, o, StatusOf(o), "Order cannot be cancelled")
       ELSE IF StatusOf(o) \in {"pending", "accepted"} /\ orders[o].client_id # u
            THEN Fail(t, op, u, o, StatusOf(o), "Only client can cancel")
       ELSE IF StatusOf(o) = "in_progress" /\ orders[o].freelancer_id # u
            THEN Fail(t, op, u, o, StatusOf(o), "Only freelancer can cancel")
       ELSE /\ Proceed(t, op, u, o, reason, 0, StatusOf(o), "update")
            /\ UNCHANGED <<orders, payments, gigs>>

cancel_order_update(t) ==
    /\ At(t, "cancel_order", "update")
    /\ orders' = Set(cur[t].oid,
          [status |-> "cancelled", cancelled_at |-> utcnow, cancel_reason |-> cur[t].a])
    /\ Step(t, "timeline")
    /\ UNCHANGED <<payments, gigs>>

(***************************************************************************)
(* extend_deadline                                                         *)
(***************************************************************************)
extend_deadline(t, u, o, days) ==
    /\ Idle(t)
    /\ LET op == "extend_deadline" IN
       IF orders[o] = NoOrder THEN Fail(t, op, u, o, "absent", "Order not found")
       ELSE IF orders[o].expected_delivery = Null
            THEN Fail(t, op, u, o, StatusOf(o), "No expected delivery to extend")
       ELSE /\ Proceed(t, op, u, o, days, orders[o].expected_delivery + days,
                       StatusOf(o), "update")
            /\ UNCHANGED <<orders, payments, gigs>>

extend_deadline_update(t) ==
    /\ At(t, "extend_deadline", "update")
    /\ orders' = Set(cur[t].oid, [expected_delivery |-> cur[t].val])
    /\ Step(t, "timeline")
    /\ UNCHANGED <<payments, gigs>>

(***************************************************************************)
(* resolve_dispute: sets the status to resolved and stores the resolution  *)
(***************************************************************************)
resolve_dispute(t, o, data) ==
    /\ Idle(t)
    /\ orders' = [orders EXCEPT ![o] =
          IF @ = NoOrder THEN @
          ELSE [status |-> "resolved", dispute_resolution |-> data] @@ @]
    /\ Proceed(t, "resolve_dispute", "none", o, data, 0, "none", "timeline")
    /\ UNCHANGED <<payments, gigs>>

(***************************************************************************)
(* update_order, update_order_admin: $set of the fields the caller gives   *)
(***************************************************************************)
update_order(t, o, fields) ==
    /\ Idle(t)
    /\ IF orders[o] = NoOrder
       THEN Fail(t, "update_order", "none", o, "absent", "Order not found")
       ELSE /\ orders' = Set(o, fields)
            /\ Proceed(t, "update_order", "none", o, 0, 0, "none", "timeline")
            /\ UNCHANGED <<payments, gigs>>

update_order_admin(t, o, data) ==
    /\ Idle(t)
    /\ orders' = Set(o, data)
    /\ Proceed(t, "update_order_admin", "none", o, 0, 0, "none", "timeline")
    /\ UNCHANGED <<payments, gigs>>

(***************************************************************************)
(* The store raises in payments.insert_one or in gigs.update_one of        *)
(* complete_order: the handler's except clause returns the failure.        *)
(***************************************************************************)
\* a variant that swallows the exception, as _add_timeline does
complete_order_raises_swallowed(t) ==
    /\ cur[t].op = "complete_order" /\ pc[t] \in {"payment", "gig"}
    /\ result' = [result EXCEPT ![t] =
          [op |-> cur[t].op, user |-> cur[t].user, oid |-> cur[t].oid,
           seen |-> cur[t].seen, ok |-> TRUE, err |-> "none"]]
    /\ pc' = [pc EXCEPT ![t] = "idle"]
    /\ cur' = [cur EXCEPT ![t] = NoCall]
    /\ UNCHANGED <<orders, payments, gigs, nCalls, limit, users>>

complete_order_raises(t) ==
    /\ cur[t].op = "complete_order" /\ pc[t] \in {"payment", "gig"}
    /\ result' = [result EXCEPT ![t] =
          [op |-> cur[t].op, user |-> cur[t].user, oid |-> cur[t].oid,
           seen |-> cur[t].seen, ok |-> FALSE, err |-> "PyMongoError"]]
    /\ pc' = [pc EXCEPT ![t] = "idle"]
    /\ cur' = [cur EXCEPT ![t] = NoCall]
    /\ UNCHANGED <<orders, payments, gigs, nCalls, limit, users>>

(***************************************************************************)
(* The response of a finished call is sent to its caller.                  *)
(***************************************************************************)
respond(t) ==
    /\ result[t] # NoResult
    /\ result' = [result EXCEPT ![t] = NoResult]
    /\ UNCHANGED <<orders, payments, gigs, pc, cur, nCalls, limit, users>>

(***************************************************************************)
(* The specification.                                                      *)
(***************************************************************************)
\* a later store operation of a running call
Continue(t) ==
    \/ confirm_order_update(t)
    \/ start_order_update(t)
    \/ deliver_order_update(t)
    \/ request_revision_update(t)
    \/ complete_order_update(t)
    \/ complete_order_payment(t)
    \/ complete_order_gig(t)
    \/ cancel_order_update(t)
    \/ extend_deadline_update(t)
    \/ complete_order_raises(t)
    \/ add_timeline(t)
    \/ add_timeline_raises(t)
    \/ respond(t)

\* a call of one of the handlers that check the order they read
Checked(t, u, o, dates, reasons) ==
    \/ confirm_order(t, u, o)
    \/ \E d \in dates : start_order(t, u, o, d)
    \/ \E n \in FileCounts : deliver_order(t, u, o, n)
    \/ \E notes \in Texts : request_revision(t, u, o, notes)
    \/ accept_delivery(t, u, o)
    \/ complete_order(t, u, o)
    \/ \E reason \in reasons : cancel_order(t, u, o, reason)

\* a call of one of the handlers that write without reading the order, or
\* that do not look at its status
Unchecked(t, u, o) ==
    \/ \E message \in Texts : dispute_order(t, u, o, message)
    \/ \E days \in DayArgs : extend_deadline(t, u, o, days)
    \/ \E data \in Resolutions : resolve_dispute(t, o, data)

\* a call of one of the handlers that set the fields the caller names
Updates(t, o) ==
    \/ \E fields \in UpdateFields : update_order(t, o, fields)
    \/ \E data \in UpdateFields : update_order_admin(t, o, data)

\* a call of create_order
Create(t) ==
    \E c \in ClientIds, f \in FreelancerIds, p \in Prices, q \in Quantities :
        create_order(t, c, f, p, q)

Next ==
    \E t \in Threads :
        \/ Create(t)
        \/ \E u \in Users, o \in OrderIds :
              Checked(t, u, o, DateArgs, Texts) \/ Unchecked(t, u, o)
        \/ \E o \in OrderIds : Updates(t, o)
        \/ Continue(t)

Spec == Init /\ [][Next]_vars

(***************************************************************************)
(* The first calls on an order: every handler may be called with every     *)
(* input; within MaxCalls calls an order gets as far as in_progress, so    *)
(* the later store operations of deliver_order, request_revision,          *)
(* complete_order and extend_deadline are not reached.                     *)
(***************************************************************************)
ContinueEarly(t) ==
    \/ confirm_order_update(t)
    \/ start_order_update(t)
    \/ cancel_order_update(t)
    \/ add_timeline(t)
    \/ respond(t)

NextEarly ==
    \E t \in Threads :
        \/ Create(t)
        \/ \E u \in Users, o \in OrderIds :
              Checked(t, u, o, DateArgs, Texts) \/ Unchecked(t, u, o)
        \/ ContinueEarly(t)

SpecEarly == Init /\ [][NextEarly]_vars

(***************************************************************************)
(* The workflow of one order through the handlers that check the order     *)
(* they read, in behaviours long enough to complete the order and to call  *)
(* complete_order once more.                                               *)
(***************************************************************************)
InitWorkflow ==
    /\ orders = [o \in OrderIds |-> NoOrder]
    /\ payments = <<>>
    /\ gigs = [total_orders |-> 0, total_earning |-> 0]
    /\ pc = [t \in Threads |-> "idle"]
    /\ cur = [t \in Threads |-> NoCall]
    /\ result = [t \in Threads |-> NoResult]
    /\ nCalls = 0
    /\ limit = MaxWorkflowCalls
    /\ users = NoEarnings

ContinueWorkflow(t) ==
    \/ confirm_order_update(t)
    \/ start_order_update(t)
    \/ deliver_order_update(t)
    \/ request_revision_update(t)
    \/ complete_order_update(t)
    \/ complete_order_payment(t)
    \/ complete_order_gig(t)
    \/ cancel_order_update(t)
    \/ add_timeline(t)
    \/ respond(t)

NextWorkflow ==
    \E t \in Threads :
        \/ \E f \in FreelancerIds, p \in {0, 100}, q \in {0, 2} :
              create_order(t, "u1", f, p, q)
        \/ \E u \in Users, o \in OrderIds : Checked(t, u, o, {BadDate, 10}, {1})
        \/ ContinueWorkflow(t)

SpecWorkflow == InitWorkflow /\ [][NextWorkflow]_vars

(***************************************************************************)
(* A dispute and its resolution: the order is brought to in_progress by    *)
(* its client and freelancer, and any user may dispute or resolve.         *)
(***************************************************************************)
MaxDisputeCalls == 5   \* calls that pass their checks in a behaviour of SpecDispute

InitDispute ==
    /\ orders = [o \in OrderIds |-> NoOrder]
    /\ payments = <<>>
    /\ gigs = [total_orders |-> 0, total_earning |-> 0]
    /\ pc = [t \in Threads |-> "idle"]
    /\ cur = [t \in Threads |-> NoCall]
    /\ result = [t \in Threads |-> NoResult]
    /\ nCalls = 0
    /\ limit = MaxDisputeCalls
    /\ users = NoEarnings

ContinueDispute(t) ==
    \/ confirm_order_update(t)
    \/ start_order_update(t)
    \/ add_timeline(t)
    \/ respond(t)

NextDispute ==
    \E t \in Threads :
        \/ \E q \in {0, 2} : create_order(t, "u1", "u2", 100, q)
        \/ \E u \in {"u1", "u2"}, o \in OrderIds :
              \/ confirm_order(t, u, o)
              \/ start_order(t, u, o, 10)
              \/ dispute_order(t, u, o, 1)
        \/ \E o \in OrderIds, data \in Resolutions : resolve_dispute(t, o, data)
        \/ ContinueDispute(t)

SpecDispute == InitDispute /\ [][NextDispute]_vars

(***************************************************************************)
(* The workflow up to completion with a store that may raise in the        *)
(* ledger insert or in the statistics increment of complete_order.         *)
(***************************************************************************)
MaxFaultCalls == 5     \* calls that pass their checks in a behaviour of SpecFaults

InitFaults ==
    /\ orders = [o \in OrderIds |-> NoOrder]
    /\ payments = <<>>
    /\ gigs = [total_orders |-> 0, total_earning |-> 0]
    /\ pc = [t \in Threads |-> "idle"]
    /\ cur = [t \in Threads |-> NoCall]
    /\ result = [t \in Threads |-> NoResult]
    /\ nCalls = 0
    /\ limit = MaxFaultCalls
    /\ users = NoEarnings

ContinueFaults(t) ==
    \/ confirm_order_update(t)
    \/ start_order_update(t)
    \/ deliver_order_update(t)
    \/ complete_order_update(t)
    \/ complete_order_payment(t)
    \/ complete_order_gig(t)
    \/ complete_order_raises(t)
    \/ add_timeline(t)
    \/ respond(t)

\* the client calls complete_order, for the first time or again
CompleteCall(t) == \E o \in OrderIds : complete_order(t, "u1", o)

NextFaults ==
    \E t \in Threads :
        \/ \E q \in {0, 2} : create_order(t, "u1", "u2", 100, q)
        \/ \E o \in OrderIds :
              \/ confirm_order(t, "u1", o)
              \/ start_order(t, "u2", o, 10)
              \/ \E n \in FileCounts : deliver_order(t, "u2", o, n)
              \/ complete_order(t, "u2", o)
        \/ CompleteCall(t)
        \/ ContinueFaults(t)

SpecFaults == InitFaults /\ [][NextFaults]_vars

\* every running call takes its next step, every response is sent, and the
\* client keeps calling complete_order
SpecFaultsFair ==
    /\ SpecFaults
    /\ \A t \in Threads : WF_vars(ContinueFaults(t))
    /\ SF_vars(\E t \in Threads : CompleteCall(t))

(***************************************************************************)
(* The first calls on an order together with update_order and              *)
(* update_order_admin.                                                     *)
(***************************************************************************)
ContinueUpdate(t) ==
    \/ confirm_order_update(t)
    \/ cancel_order_update(t)
    \/ add_timeline(t)
    \/ respond(t)

NextUpdate ==
    \E t \in Threads :
        \/ \E q \in {0, 2} : create_order(t, "u1", "u2", 100, q)
        \/ \E u \in {"u1", "u2"}, o \in OrderIds :
              \/ confirm_order(t, u, o)
              \/ cancel_order(t, u, o, 1)
        \/ \E o \in OrderIds : Updates(t, o)
        \/ ContinueUpdate(t)

SpecUpdate == Init /\ [][NextUpdate]_vars

(***************************************************************************)
(* One order from creation to completion, with a revision request: the     *)
(* order's client and freelancer call the handlers of the workflow, each   *)
(* also in the other's place, and the price may be negative.               *)
(***************************************************************************)
MaxScenarioCalls == 5  \* calls that pass their checks in a behaviour of SpecScenario

InitScenario ==
    /\ orders = [o \in OrderIds |-> NoOrder]
    /\ payments = <<>>
    /\ gigs = [total_orders |-> 0, total_earning |-> 0]
    /\ pc = [t \in Threads |-> "idle"]
    /\ cur = [t \in Threads |-> NoCall]
    /\ result = [t \in Threads |-> NoResult]
    /\ nCalls = 0
    /\ limit = MaxScenarioCalls
    /\ users = NoEarnings

ContinueScenario(t) ==
    \/ confirm_order_update(t)
    \/ start_order_update(t)
    \/ deliver_order_update(t)
    \/ request_revision_update(t)
    \/ complete_order_update(t)
    \/ complete_order_payment(t)
    \/ complete_order_gig(t)
    \/ add_timeline(t)
    \/ respond(t)

NextScenario ==
    \E t \in Threads :
        \/ \E p \in {-1, 100}, q \in {0, 2} : create_order(t, "u1", "u2", p, q)
        \/ \E u \in {"u1", "u2"}, o \in OrderIds :
              \/ confirm_order(t, u, o)
              \/ start_order(t, u, o, 10)
              \/ \E n \in FileCounts : deliver_order(t, u, o, n)
              \/ \E notes \in Texts : request_revision(t, u, o, notes)
              \/ complete_order(t, u, o)
        \/ ContinueScenario(t)

SpecScenario == InitScenario /\ [][NextScenario]_vars

(***************************************************************************)
(* An order brought to in_progress, with or without a delivery date, whose *)
(* deadline its client and freelancer then extend.                         *)
(***************************************************************************)
MaxDeadlineCalls == 5  \* calls that pass their checks in a behaviour of SpecDeadline

InitDeadline ==
    /\ orders = [o \in OrderIds |-> NoOrder]
    /\ payments = <<>>
    /\ gigs = [total_orders |-> 0, total_earning |-> 0]
    /\ pc = [t \in Threads |-> "idle"]
    /\ cur = [t \in Threads |-> NoCall]
    /\ result = [t \in Threads |-> NoResult]
    /\ nCalls = 0
    /\ limit = MaxDeadlineCalls
    /\ users = NoEarnings

ContinueDeadline(t) ==
    \/ confirm_order_update(t)
    \/ start_order_update(t)
    \/ extend_deadline_update(t)
    \/ add_timeline(t)
    \/ respond(t)

NextDeadline ==
    \E t \in Threads :
        \/ create_order(t, "u1", "u2", 100, 2)
        \/ \E o \in OrderIds :
              \/ confirm_order(t, "u1", o)
              \/ \E d \in {Null, 10} : start_order(t, "u2", o, d)
              \/ \E u \in {"u1", "u2"}, days \in DayArgs : extend_deadline(t, u, o, days)
        \/ ContinueDeadline(t)

SpecDeadline == InitDeadline /\ [][NextDeadline]_vars

(***************************************************************************)
(* The variant rpc-server/services/ordres_service.py, whose instance is    *)
(* registered with the XML-RPC server as it is: its handlers raise         *)
(* instead of returning a failure, and its _add_timeline has no except     *)
(* clause.  A result whose err is in RaisedErrors is an exception that     *)
(* left the handler.                                                       *)
(***************************************************************************)
RaisedErrors == {"raised ValueError", "raised PermissionError", "raised PyMongoError"}

\* the handler raises from its first step
Raise(t, op, u, o, seen, err) == Fail(t, op, u, o, seen, err)

rpc_create_order(t, c, f, p, q) ==
    /\ Idle(t)
    /\ \E o \in OrderIds :
          /\ orders[o] = NoOrder
          /\ orders' = [orders EXCEPT ![o] =
                [gig_id |-> GigId, client_id |-> c, freelancer_id |-> f,
                 price |-> p, quantity |-> q,
                 delivery_files |-> <<>>, timeline |-> <<>>,
                 status |-> "pending",
                 created_at |-> utcnow + 1,
                 expected_delivery |-> Null, started_at |-> Null,
                 delivered_at |-> Null, completed_at |-> Null,
                 cancelled_at |-> Null, cancel_reason |-> Null,
                 dispute_resolution |-> Null]]
          /\ Proceed(t, "create_order", c, o, p, 0, "none", "rpc_timeline")
          /\ UNCHANGED <<payments, gigs>>

accept_order(t, u, o) ==
    /\ Idle(t)
    /\ LET op == "accept_order" IN
       IF orders[o] = NoOrder THEN Raise(t, op, u, o, "absent", "raised ValueError")
       ELSE IF orders[o].freelancer_id # u
            THEN Raise(t, op, u, o, StatusOf(o), "raised PermissionError")
       ELSE IF StatusOf(o) # "pending"
            THEN Raise(t, op, u, o, StatusOf(o), "raised ValueError")
       ELSE /\ Proceed(t, op, u, o, 0, 0, StatusOf(o), "update")
            /\ UNCHANGED <<orders, payments, gigs>>

accept_order_update(t) ==
    /\ At(t, "accept_order", "update")
    /\ orders' = Set(cur[t].oid, [status |-> "accepted"])
    /\ Step(t, "rpc_timeline")
    /\ UNCHANGED <<payments, gigs>>

\* _add_timeline followed by the handler's return
rpc_add_timeline(t) ==
    /\ pc[t] = "rpc_timeline"
    /\ LET c == cur[t]
           entry == [action |-> TimelineAction(c.op), user_id |-> TimelineUser(c)]
       IN /\ orders' = IF orders[c.oid] = NoOrder THEN orders
                       ELSE [orders EXCEPT ![c.oid].timeline = Append(@, entry)]
          /\ result' = [result EXCEPT ![t] =
                [op |-> c.op, user |-> c.user, oid |-> c.oid, seen |-> c.seen,
                 ok |-> TRUE, err |-> "none"]]
    /\ pc' = [pc EXCEPT ![t] = "idle"]
    /\ cur' = [cur EXCEPT ![t] = NoCall]
    /\ UNCHANGED <<payments, gigs, nCalls, limit, users>>

\* the $push of _add_timeline raises: the exception leaves the handler
rpc_add_timeline_raises(t) ==
    /\ pc[t] = "rpc_timeline"
    /\ result' = [result EXCEPT ![t] =
          [op |-> cur[t].op, user |-> cur[t].user, oid |-> cur[t].oid,
           seen |-> cur[t].seen, ok |-> FALSE, err |-> "raised PyMongoError"]]
    /\ pc' = [pc EXCEPT ![t] = "idle"]
    /\ cur' = [cur EXCEPT ![t] = NoCall]
    /\ UNCHANGED <<orders, payments, gigs, nCalls, limit, users>>

ContinueRpc(t) ==
    \/ accept_order_update(t)
    \/ rpc_add_timeline(t)
    \/ rpc_add_timeline_raises(t)
    \/ respond(t)

NextRpc ==
    \E t \in Threads :
        \/ \E p \in Prices, q \in Quantities : rpc_create_order(t, "u1", "u2", p, q)
        \/ \E u \in {"u1", "u2"}, o \in OrderIds : accept_order(t, u, o)
        \/ ContinueRpc(t)

SpecRpc == Init /\ [][NextRpc]_vars

(***************************************************************************)
(* The first calls on an order with a timeline whose append may raise.     *)
(***************************************************************************)
ContinueTimelineFaults(t) ==
    \/ confirm_order_update(t)
    \/ cancel_order_update(t)
    \/ add_timeline(t)
    \/ add_timeline_raises(t)
    \/ respond(t)

NextTimelineFaults ==
    \E t \in Threads :
        \/ \E q \in {0, 2} : create_order(t, "u1", "u2", 100, q)
        \/ \E u \in {"u1", "u2"}, o \in OrderIds :
              \/ confirm_order(t, u, o)
              \/ cancel_order(t, u, o, 1)
        \/ ContinueTimelineFaults(t)

SpecTimelineFaults == Init /\ [][NextTimelineFaults]_vars

(***************************************************************************)
(* The variant workNet2/rpc-server/src/services/orders_service.py.  Its    *)
(* handlers run find_one, the checks and update_one in one transaction of  *)
(* the store: the transaction reads the order as it was when the           *)
(* transaction began, and its update_one raises a write conflict when      *)
(* another transaction has written the order since; the handler's except   *)
(* clause returns the failure.  The service does not insert orders (its    *)
(* create only logs), so the order exists from the start.  The test        *)
(* `not self.collection` passes or not with the database handle the        *)
(* service was built on: `collection` says which.                          *)
(***************************************************************************)
MaxStatusCalls == 4    \* calls that pass their checks in a behaviour of SpecStatus

\* the status argument of update_status: the valid ones and one other
StatusArgs == {"pending", "in_progress", "completed", "cancelled", "disputed", "paid"}

\* the order_id argument: the stored order and an id no order has
OrderIdArgs == {1, 2}

\* find_one({'_id': order_id}) within the transaction
find_one(o) == IF o \in DOMAIN orders THEN orders[o] ELSE NoOrder

valid_statuses == {"pending", "in_progress", "completed", "cancelled", "disputed"}

\* a variant of the table in which a completed order may be reopened
valid_transitions_reopen(current_status) ==
    CASE current_status = "pending"     -> {"in_progress", "cancelled"}
      [] current_status = "in_progress" -> {"completed", "disputed", "cancelled"}
      [] current_status = "completed"   -> {"pending"}
      [] current_status = "cancelled"   -> {}
      [] current_status = "disputed"    -> {"completed", "cancelled"}
      [] OTHER -> {}

valid_transitions(current_status) ==
    CASE current_status = "pending"     -> {"in_progress", "cancelled"}
      [] current_status = "in_progress" -> {"completed", "disputed", "cancelled"}
      [] current_status = "completed"   -> {}
      [] current_status = "cancelled"   -> {}
      [] current_status = "disputed"    -> {"completed", "cancelled"}
      [] OTHER -> {}

InitStatus ==
    /\ orders = [o \in OrderIds |->
                   [status |-> "pending", price |-> 50, sellerId |-> "u2",
                    buyerId |-> "u1", completedAt |-> Null, cancelledAt |-> Null,
                    cancellationReason |-> Null]]
    /\ payments = <<>>
    /\ gigs = [total_orders |-> 0, total_earning |-> 0]
    /\ pc = [t \in Threads |-> "idle"]
    /\ cur = [t \in Threads |-> NoCall]
    /\ result = [t \in Threads |-> NoResult]
    /\ nCalls = 0
    /\ limit = MaxStatusCalls
    /\ users = NoEarnings

\* the collections the transaction of thread t writes; the model holds one
\* document of each, so two transactions that write the same collection
\* write the same document
WriteSet(t) ==
    CASE cur[t].op = "update_status" ->
            IF cur[t].val = "completed" THEN {"orders", "users"} ELSE {"orders"}
      [] cur[t].op = "cancel" -> {"orders"}
      [] cur[t].op = "process" ->
            IF cur[t].val = "completed" THEN {"payments", "orders", "users"}
            ELSE {"payments"}
      [] cur[t].op = "refund" -> {"payments", "users"}
      [] OTHER -> {}

\* the calls after the transaction of thread t ended: when it committed
\* writes, every transaction that began before and writes one of the same
\* documents is bound to fail with a write conflict
AfterTransaction(t, committed) ==
    [x \in Threads |->
        IF x = t THEN NoCall
        ELSE IF committed /\ pc[x] = "commit" /\ WriteSet(x) \cap WriteSet(t) # {}
             THEN [cur[x] EXCEPT !.seen = "conflict"]
             ELSE cur[x]]

\* the transaction of thread t ends: the handler returns
Finish(t, ok, err) ==
    /\ result' = [result EXCEPT ![t] =
          [op |-> cur[t].op, user |-> cur[t].user, oid |-> cur[t].oid,
           seen |-> cur[t].seen, ok |-> ok, err |-> err]]
    /\ pc' = [pc EXCEPT ![t] = "idle"]
    /\ cur' = AfterTransaction(t, ok)
    /\ UNCHANGED <<gigs, nCalls, limit>>

\* the same for the order service, which does not write db.payments
Return(t, ok, err) ==
    /\ Finish(t, ok, err)
    /\ UNCHANGED payments

\* another transaction wrote the order after the transaction of t read it
WriteConflict(t) == orders[cur[t].oid].status # cur[t].seen

\* another transaction wrote a document the payment transaction of t writes
PaymentWriteConflict(t) == cur[t].seen = "conflict"

update_status(t, o, status, collection) ==
    /\ Idle(t)
    /\ LET op == "update_status"
           order == find_one(o)
           current_status == order.status
       IN
       IF status \notin valid_statuses
       THEN Fail(t, op, "none", o, "none", "Invalid status")
       ELSE IF ~collection
            THEN Fail(t, op, "none", o, "none", "Database not available")
       ELSE IF order = NoOrder
            THEN Fail(t, op, "none", o, "absent", "Order not found")
       ELSE IF status \notin valid_transitions(current_status)
            THEN Fail(t, op, "none", o, current_status, "Invalid status transition")
       ELSE /\ Proceed(t, op, "none", o, 0, status, current_status, "commit")
            /\ UNCHANGED <<orders, payments, gigs>>

\* update_one, _update_seller_earnings and the commit of the transaction
update_status_commit(t) ==
    /\ At(t, "update_status", "commit")
    /\ LET o == cur[t].oid
           status == cur[t].val
       IN IF WriteConflict(t)
          THEN /\ Return(t, FALSE, "WriteConflict")
               /\ UNCHANGED <<orders, users>>
          ELSE /\ orders' = Set(o,
                     IF status = "completed"
                     THEN [status |-> status, completedAt |-> utcnow]
                     ELSE IF status = "cancelled"
                          THEN [status |-> status, cancelledAt |-> utcnow]
                          ELSE [status |-> status])
               /\ users' = IF status = "completed"
                           THEN [users EXCEPT ![orders[o].sellerId].totalEarnings =
                                    @ + orders[o].price]
                           ELSE users
               /\ Return(t, TRUE, "none")

cancel(t, o, reason, collection) ==
    /\ Idle(t)
    /\ LET order == find_one(o)
           current_status == order.status
       IN
       IF ~collection
       THEN Fail(t, "cancel", "none", o, "none", "Database not available")
       ELSE IF order = NoOrder
            THEN Fail(t, "cancel", "none", o, "absent", "Order not found")
       ELSE IF current_status \in {"completed", "cancelled"}
            THEN Fail(t, "cancel", "none", o, current_status, "Cannot cancel order")
       ELSE /\ Proceed(t, "cancel", "none", o, reason, 0, current_status, "commit")
            /\ UNCHANGED <<orders, payments, gigs>>

cancel_commit(t) ==
    /\ At(t, "cancel", "commit")
    /\ IF WriteConflict(t)
       THEN /\ Return(t, FALSE, "WriteConflict")
            /\ UNCHANGED <<orders, users>>
       ELSE /\ orders' = Set(cur[t].oid,
                  [status |-> "cancelled", cancellationReason |-> cur[t].a,
                   cancelledAt |-> utcnow])
            /\ Return(t, TRUE, "none")
            /\ UNCHANGED users

NextStatus ==
    \E t \in Threads :
        \/ \E o \in OrderIdArgs, status \in StatusArgs, collection \in BOOLEAN :
              update_status(t, o, status, collection)
        \/ \E o \in OrderIdArgs, collection \in BOOLEAN : cancel(t, o, 1, collection)
        \/ update_status_commit(t)
        \/ cancel_commit(t)
        \/ respond(t)

SpecStatus == InitStatus /\ [][NextStatus]_vars

(***************************************************************************)
(* The same service when users.update_one of _update_seller_earnings       *)
(* raises.  The except clause of _update_seller_earnings drops the         *)
(* exception and update_status goes on to its return.  What the store then *)
(* does with the transaction depends on the failure: a failure the server  *)
(* saw aborts the transaction, the commit raises and update_status returns *)
(* success=False; a failure on the client side (the request never reached  *)
(* the server) leaves the transaction open and the commit stores the       *)
(* status without the credit.                                              *)
(***************************************************************************)
update_status_commit_earnings_raise(t, aborted) ==
    /\ At(t, "update_status", "commit")
    /\ cur[t].val = "completed"
    /\ ~WriteConflict(t)
    /\ IF aborted
       THEN /\ Return(t, FALSE, "TransactionAborted")
            /\ UNCHANGED <<orders, users>>
       ELSE /\ orders' = Set(cur[t].oid,
                  [status |-> "completed", completedAt |-> utcnow])
            /\ Return(t, TRUE, "none")
            /\ UNCHANGED users

(***************************************************************************)
(* PaymentsService of workNet2 (payments_service.py).  db.payments holds   *)
(* one payment of the stored order; the service itself inserts none (its   *)
(* create only logs).  Amounts are whole numbers for which the fee of 20%  *)
(* is exact in floating point.                                             *)
(***************************************************************************)
MaxPaymentCalls == 4   \* calls that pass their checks in a behaviour of SpecPayments

PLATFORM_FEE_PERCENTAGE == 20     \* in hundredths: 0.20 in the source

PaymentIdArgs == {1, 2}           \* the stored payment and an id no payment has
PaymentStatusArgs == {"pending", "completed", "failed", "refunded", "paid"}
RefundAmounts == {-1, 20, 50, 60} \* invalid, partial, whole, above the original

valid_payment_statuses == {"pending", "completed", "failed", "refunded"}

NoPayment == [status |-> "absent"]

\* collection.find_one({'_id': payment_id}) within the transaction
find_payment(p) == IF p \in DOMAIN payments THEN payments[p] ELSE NoPayment

\* amount - amount * PLATFORM_FEE_PERCENTAGE
seller_amount(amount) == amount - (amount * PLATFORM_FEE_PERCENTAGE) \div 100

InitPayments ==
    /\ orders = [o \in OrderIds |->
                   [status |-> "pending", price |-> 50, sellerId |-> "u2",
                    buyerId |-> "u1", completedAt |-> Null, cancelledAt |-> Null,
                    cancellationReason |-> Null, paymentIntent |-> Null]]
    /\ payments = <<[status |-> "pending", amount |-> 50, orderId |-> 1,
                     refundAmount |-> Null, completedAt |-> Null,
                     refundedAt |-> Null]>>
    /\ gigs = [total_orders |-> 0, total_earning |-> 0]
    /\ pc = [t \in Threads |-> "idle"]
    /\ cur = [t \in Threads |-> NoCall]
    /\ result = [t \in Threads |-> NoResult]
    /\ nCalls = 0
    /\ limit = MaxPaymentCalls
    /\ users = NoEarnings

\* a variant of process without the check on a completed payment
process_any_transition(t, p, status, collection) ==
    /\ Idle(t)
    /\ LET payment == find_payment(p)
           current_status == payment.status
       IN
       IF status \notin valid_payment_statuses
       THEN Fail(t, "process", "none", p, "none", "Invalid status")
       ELSE IF ~collection
            THEN Fail(t, "process", "none", p, "none", "Database not available")
       ELSE IF payment = NoPayment
            THEN Fail(t, "process", "none", p, "absent", "Payment not found")
       ELSE /\ Proceed(t, "process", "none", p, 0, status, current_status, "commit")
            /\ UNCHANGED <<orders, payments, gigs>>

process(t, p, status, collection) ==
    /\ Idle(t)
    /\ LET payment == find_payment(p)
           current_status == payment.status
       IN
       IF status \notin valid_payment_statuses
       THEN Fail(t, "process", "none", p, "none", "Invalid status")
       ELSE IF ~collection
            THEN Fail(t, "process", "none", p, "none", "Database not available")
       ELSE IF payment = NoPayment
            THEN Fail(t, "process", "none", p, "absent", "Payment not found")
       ELSE IF current_status = "completed" /\ status # "refunded"
            THEN Fail(t, "process", "none", p, current_status,
                      "Cannot change status from completed")
       ELSE /\ Proceed(t, "process", "none", p, 0, status, current_status, "commit")
            /\ UNCHANGED <<orders, payments, gigs>>

\* the writes of process and the commit of its transaction
process_commit(t) ==
    /\ At(t, "process", "commit")
    /\ LET p == cur[t].oid
           status == cur[t].val
           order_id == payments[p].orderId
       IN IF PaymentWriteConflict(t)
          THEN /\ Finish(t, FALSE, "WriteConflict")
               /\ UNCHANGED <<orders, payments, users>>
          ELSE IF status = "completed" /\ find_one(order_id) = NoOrder
          THEN \* find_one(...).get('sellerId') raises on None
               /\ Finish(t, FALSE, "AttributeError")
               /\ UNCHANGED <<orders, payments, users>>
          ELSE /\ payments' = [payments EXCEPT ![p] =
                     (IF status = "completed"
                      THEN [status |-> status, completedAt |-> utcnow]
                      ELSE IF status = "refunded"
                           THEN [status |-> status, refundedAt |-> utcnow]
                           ELSE [status |-> status]) @@ @]
               /\ orders' = IF status = "completed"
                            THEN Set(order_id, [status |-> "in_progress",
                                                paymentIntent |-> p])
                            ELSE orders
               /\ users' = IF status = "completed"
                           THEN [users EXCEPT ![orders[order_id].sellerId].totalEarnings =
                                    @ + seller_amount(payments[p].amount)]
                           ELSE users
               /\ Finish(t, TRUE, "none")

\* a variant of refund without the comparison with the original amount
refund_any_amount(t, p, amount, collection) ==
    /\ Idle(t)
    /\ LET payment == find_payment(p) IN
       IF amount < 0
       THEN Fail(t, "refund", "none", p, "none", "Invalid price")
       ELSE IF ~collection
            THEN Fail(t, "refund", "none", p, "none", "Database not available")
       ELSE IF payment = NoPayment
            THEN Fail(t, "refund", "none", p, "absent", "Payment not found")
       ELSE IF payment.status # "completed"
            THEN Fail(t, "refund", "none", p, payment.status,
                      "Can only refund completed payments")
       ELSE /\ Proceed(t, "refund", "none", p, amount, "refunded", payment.status,
                       "commit")
            /\ UNCHANGED <<orders, payments, gigs>>

refund(t, p, amount, collection) ==
    /\ Idle(t)
    /\ LET payment == find_payment(p) IN
       IF amount < 0
       THEN Fail(t, "refund", "none", p, "none", "Invalid price")
       ELSE IF ~collection
            THEN Fail(t, "refund", "none", p, "none", "Database not available")
       ELSE IF payment = NoPayment
            THEN Fail(t, "refund", "none", p, "absent", "Payment not found")
       ELSE IF payment.status # "completed"
            THEN Fail(t, "refund", "none", p, payment.status,
                      "Can only refund completed payments")
       ELSE IF amount > payment.amount
            THEN Fail(t, "refund", "none", p, payment.status,
                      "Refund amount cannot exceed original payment")
       ELSE /\ Proceed(t, "refund", "none", p, amount, "refunded", payment.status,
                       "commit")
            /\ UNCHANGED <<orders, payments, gigs>>

\* the writes of refund and the commit of its transaction
refund_commit(t) ==
    /\ At(t, "refund", "commit")
    /\ LET p == cur[t].oid
           amount == cur[t].a
           order == find_one(payments[p].orderId)
       IN IF PaymentWriteConflict(t)
          THEN /\ Finish(t, FALSE, "WriteConflict")
               /\ UNCHANGED <<orders, payments, users>>
          ELSE /\ payments' = [payments EXCEPT ![p] =
                     [status |-> "refunded", refundAmount |-> amount,
                      refundedAt |-> utcnow] @@ @]
               /\ users' = IF order # NoOrder
                           THEN [users EXCEPT ![order.sellerId].totalEarnings =
                                    @ - seller_amount(amount)]
                           ELSE users
               /\ Finish(t, TRUE, "none")
               /\ UNCHANGED orders

NextPayments ==
    \E t \in Threads :
        \/ \E p \in PaymentIdArgs, status \in PaymentStatusArgs, collection \in BOOLEAN :
              process(t, p, status, collection)
        \/ \E p \in PaymentIdArgs, amount \in RefundAmounts, collection \in BOOLEAN :
              refund(t, p, amount, collection)
        \/ \E o \in OrderIdArgs, status \in valid_statuses :
              update_status(t, o, status, TRUE)
        \/ process_commit(t)
        \/ refund_commit(t)
        \/ update_status_commit(t)
        \/ respond(t)

SpecPayments == InitPayments /\ [][NextPayments]_vars

NextEarnings ==
    \/ NextStatus
    \/ \E t \in Threads, aborted \in BOOLEAN :
          update_status_commit_earnings_raise(t, aborted)

SpecEarnings == InitStatus /\ [][NextEarnings]_vars

(***************************************************************************)
(* What a step shows of the call it belongs to.                            *)
(***************************************************************************)
\* thread t returns a value to its caller in this step
Returned(t) == result'[t] # result[t] /\ result'[t] # NoResult

\* thread t takes a call in this step
Began(t) == pc[t] = "idle" /\ (pc'[t] # "idle" \/ Returned(t))

\* the call thread t takes in this step: handler, caller, order id
BegunOp(t) == IF pc'[t] # "idle" THEN cur'[t].op ELSE result'[t].op
BegunUser(t) == IF pc'[t] # "idle" THEN cur'[t].user ELSE result'[t].user
BegunOid(t) == IF pc'[t] # "idle" THEN cur'[t].oid ELSE result'[t].oid

\* thread t takes the step, and the call the step belongs to
Acts(t) == pc'[t] # pc[t] \/ result'[t] # result[t]
ActingCall(t) == IF pc[t] = "idle" THEN cur'[t] ELSE cur[t]

\* the error messages that report a wrong status, and a wrong caller
StateErrors ==
    {"Order must be pending", "Order must be accepted first",
     "Order must be in progress", "Order must be delivered",
     "Order is not delivered", "Order must be delivered first",
     "Order cannot be cancelled", "No expected delivery to extend"}
AuthErrors == {"Not authorized", "Only client can cancel", "Only freelancer can cancel"}

\* the release entries of the ledger for an order
Releases(o) ==
    {i \in DOMAIN payments :
        payments[i].order_id = o /\ payments[i].status = "released"}

\* a complete_order call is between its first and its last store operation
CompleteInFlight == \E t \in Threads : cur[t].op = "complete_order"

\* the transitions of the state machine of section 4.1
Edges ==
    {<<"pending", "accepted">>, <<"pending", "rejected">>, <<"pending", "cancelled">>,
     <<"accepted", "in_progress">>, <<"accepted", "cancelled">>,
     <<"in_progress", "delivered">>, <<"in_progress", "cancelled">>,
     <<"in_progress", "disputed">>,
     <<"delivered", "revision_requested">>, <<"delivered", "completed">>,
     <<"delivered", "disputed">>,
     <<"revision_requested", "delivered">>,
     <<"disputed", "resolved">>, <<"disputed", "completed">>,
     <<"disputed", "cancelled">>}

(***************************************************************************)
(* C1: every change of an order's status is an edge of the state machine   *)
(* of section 4.1.                                                         *)
(***************************************************************************)
C1_StatusFollowsEdges ==
    [][\A o \in OrderIds :
          (orders[o] # NoOrder /\ orders'[o].status # orders[o].status)
          => <<orders[o].status, orders'[o].status>> \in Edges]_vars

(***************************************************************************)
(* C2: once an order has been completed and no complete call is running,   *)
(* the ledger holds exactly one release entry for it and the gig counted   *)
(* it once, with total_earning raised by price x quantity, however the     *)
(* store operations of concurrent complete calls interleaved.              *)
(***************************************************************************)
C2_ExactlyOneRelease ==
    \A o \in OrderIds :
        (orders[o] # NoOrder /\ orders[o].completed_at # Null /\ ~CompleteInFlight)
        => /\ Cardinality(Releases(o)) = 1
           /\ gigs.total_orders = 1
           /\ gigs.total_earning = orders[o].price * orders[o].quantity

(***************************************************************************)
(* C3: two complete calls that overlap on the same order never both        *)
(* return success.                                                         *)
(***************************************************************************)
C3_OneCompleteSucceeds ==
    \A t1, t2 \in Threads :
        (/\ t1 # t2
         /\ result[t1].op = "complete_order" /\ result[t1].ok
         /\ result[t2].op = "complete_order" /\ result[t2].oid = result[t1].oid)
        => ~result[t2].ok

(***************************************************************************)
(* C4: a release entry exists for an order, or the gig statistics count    *)
(* it, only if the order's recorded status is completed.                   *)
(***************************************************************************)
C4_ReleaseOnlyIfCompleted ==
    \A o \in OrderIds :
        (Releases(o) # {} \/ (orders[o] # NoOrder /\ gigs.total_orders > 0))
        => orders[o].status = "completed"

(***************************************************************************)
(* C5: a complete call on an order whose status is completed returns a     *)
(* failure from its first step and changes neither the order (status,      *)
(* completed_at, timeline) nor the ledger nor the gig statistics.          *)
(***************************************************************************)
C5_CompleteOnCompletedIsNoOp ==
    [][\A t \in Threads :
          (/\ Began(t)
           /\ BegunOp(t) = "complete_order"
           /\ orders[BegunOid(t)].status = "completed")
          => /\ Returned(t)
             /\ ~result'[t].ok
             /\ UNCHANGED <<orders, payments, gigs>>]_vars

C5_Witness ==
    \E t \in Threads :
        /\ result[t].op = "complete_order"
        /\ result[t].seen = "completed"
        /\ ~result[t].ok
        /\ orders[result[t].oid].status = "completed"
        /\ Cardinality(Releases(result[t].oid)) = 1

(***************************************************************************)
(* C6: when confirm and cancel overlap on a pending order, or start and    *)
(* cancel on an accepted order, at most one of the two returns success.    *)
(***************************************************************************)
C6_TransitionsSerialized ==
    \A t1, t2 \in Threads :
        (/\ t1 # t2
         /\ result[t1].ok /\ result[t2].op = "cancel_order"
         /\ result[t2].oid = result[t1].oid
         /\ \/ result[t1].op = "confirm_order" /\ result[t2].seen = "pending"
            \/ result[t1].op = "start_order" /\ result[t2].seen = "accepted")
        => ~result[t2].ok

(***************************************************************************)
(* C7: a call that returns a failure because of the order's status or      *)
(* because of the caller returns it from its first step, and that step     *)
(* leaves the orders, the ledger and the gig statistics as they were.      *)
(***************************************************************************)
C7_FailureChangesNothing ==
    [][\A t \in Threads :
          (/\ Returned(t)
           /\ ~result'[t].ok
           /\ result'[t].err \in StateErrors \cup AuthErrors)
          => /\ pc[t] = "idle"
             /\ UNCHANGED <<orders, payments, gigs>>]_vars

C7_Witness ==
    \E t \in Threads :
        /\ result[t].op = "complete_order"
        /\ result[t].seen = "delivered"
        /\ ~result[t].ok
        /\ result[t].err = "Not authorized"
        /\ orders[result[t].oid].status = "delivered"
        /\ payments = <<>>

(***************************************************************************)
(* C8: a cancel call by the order's client on an order in progress, and a  *)
(* cancel call by the order's freelancer on a pending or accepted order,   *)
(* fails with an authorization error; the status is unchanged and          *)
(* cancelled_at stays null.                                                *)
(***************************************************************************)
\* the call thread t takes is a cancel by a user in the wrong role
CancelByClientInProgress(t) ==
    /\ Began(t) /\ BegunOp(t) = "cancel_order"
    /\ orders[BegunOid(t)].status = "in_progress"
    /\ BegunUser(t) = orders[BegunOid(t)].client_id

CancelByFreelancerEarly(t) ==
    /\ Began(t) /\ BegunOp(t) = "cancel_order"
    /\ orders[BegunOid(t)].status \in {"pending", "accepted"}
    /\ BegunUser(t) = orders[BegunOid(t)].freelancer_id

\* the call fails with an authorization error and cancels nothing
CancelRefused(t) ==
    /\ Returned(t)
    /\ ~result'[t].ok
    /\ result'[t].err \in AuthErrors
    /\ orders'[BegunOid(t)].status = orders[BegunOid(t)].status
    /\ orders[BegunOid(t)].cancelled_at = Null
          => orders'[BegunOid(t)].cancelled_at = Null

C8_CancelRoleRules ==
    [][\A t \in Threads :
          (CancelByClientInProgress(t) \/ CancelByFreelancerEarly(t))
          => CancelRefused(t)]_vars

\* C8 as amended: the same, for a caller who holds only the one role
C8_CancelRoleRulesOneRole ==
    [][\A t \in Threads :
          (/\ CancelByClientInProgress(t) \/ CancelByFreelancerEarly(t)
           /\ orders[BegunOid(t)].client_id # orders[BegunOid(t)].freelancer_id)
          => CancelRefused(t)]_vars

C8_Witness ==
    \E t \in Threads :
        /\ result[t].op = "cancel_order"
        /\ result[t].seen = "in_progress"
        /\ result[t].user = orders[result[t].oid].client_id
        /\ result[t].user # orders[result[t].oid].freelancer_id
        /\ result[t].err = "Only freelancer can cancel"
        /\ orders[result[t].oid].status = "in_progress"
        /\ orders[result[t].oid].cancelled_at = Null

(***************************************************************************)
(* C9: a cancel call succeeds only on an order it read as pending,         *)
(* accepted or in_progress.                                                *)
(***************************************************************************)
C9_CancelOnlyFromOpenStatus ==
    \A t \in Threads :
        (result[t].op = "cancel_order" /\ result[t].ok)
        => result[t].seen \in {"pending", "accepted", "in_progress"}

(***************************************************************************)
(* C10: a step of a call changes an order only if the caller is the actor  *)
(* section 4.1 names for the operation: the order's client for confirm,    *)
(* request_revision and complete, its freelancer for start and deliver,    *)
(* one of the two for dispute, an admin for resolve_dispute.               *)
(***************************************************************************)
Admins == {"u3"}

NamedActor(c, order) ==
    CASE c.op \in {"confirm_order", "request_revision", "complete_order"}
            -> c.user = order.client_id
      [] c.op \in {"start_order", "deliver_order"}
            -> c.user = order.freelancer_id
      [] c.op = "dispute_order"
            -> c.user \in {order.client_id, order.freelancer_id}
      [] c.op = "resolve_dispute"
            -> c.user \in Admins
      [] OTHER -> TRUE

C10_OnlyNamedActorChangesOrder ==
    [][\A t \in Threads, o \in OrderIds :
          (Acts(t) /\ orders[o] # NoOrder /\ orders'[o] # orders[o])
          => NamedActor(ActingCall(t), orders[o])]_vars

(***************************************************************************)
(* C11: a dispute call on an order whose status is neither in_progress     *)
(* nor delivered fails and leaves the status unchanged; a dispute call     *)
(* moves an order to disputed only from in_progress or delivered and with  *)
(* a non-empty message.                                                    *)
(***************************************************************************)
C11_DisputeOnlyFromInProgressOrDelivered ==
    [][\A t \in Threads :
          (/\ Began(t) /\ BegunOp(t) = "dispute_order"
           /\ orders[BegunOid(t)] # NoOrder)
          => IF orders[BegunOid(t)].status \in {"in_progress", "delivered"}
             THEN orders'[BegunOid(t)].status # orders[BegunOid(t)].status
                     => /\ orders'[BegunOid(t)].status = "disputed"
                        /\ cur'[t].a # 0
             ELSE /\ Returned(t)
                  /\ ~result'[t].ok
                  /\ orders'[BegunOid(t)].status = orders[BegunOid(t)].status]_vars

(***************************************************************************)
(* C12: a resolve_dispute call on a disputed order sets the status the     *)
(* resolution payload directs; on an order that is not disputed it fails   *)
(* and leaves the order unchanged.                                         *)
(***************************************************************************)
\* the status a resolution payload directs: 2 stands for "completed"
Directed(data) == IF data = 2 THEN "completed" ELSE "resolved"

C12_ResolveOnlyFromDisputed ==
    [][\A t \in Threads :
          (/\ Began(t) /\ BegunOp(t) = "resolve_dispute"
           /\ orders[BegunOid(t)] # NoOrder)
          => IF orders[BegunOid(t)].status = "disputed"
             THEN /\ pc'[t] # "idle"
                  /\ orders'[BegunOid(t)].status = Directed(cur'[t].a)
             ELSE /\ Returned(t)
                  /\ ~result'[t].ok
                  /\ orders'[BegunOid(t)] = orders[BegunOid(t)]]_vars

(***************************************************************************)
(* C13: once an order went through create, confirm, start, dispute and     *)
(* resolve_dispute with the resolution "completed", and no call is         *)
(* running, its status is completed, the ledger holds exactly one release  *)
(* entry for it (price x quantity, wallet) and the gig counted it once.    *)
(***************************************************************************)
\* the actions of the timeline entries, in stored order
Actions(timeline) == [i \in DOMAIN timeline |-> timeline[i].action]

ScenarioE ==
    <<"order_created", "order_confirmed", "order_started", "order_disputed",
      "dispute_resolved">>

NoCallRunning == \A t \in Threads : pc[t] = "idle"

C13_ResolveToCompletedReleasesOnce ==
    \A o \in OrderIds :
        (/\ orders[o] # NoOrder
         /\ Actions(orders[o].timeline) = ScenarioE
         /\ orders[o].dispute_resolution = 2
         /\ NoCallRunning)
        => /\ orders[o].status = "completed"
           /\ Cardinality(Releases(o)) = 1
           /\ \A i \in Releases(o) :
                 /\ payments[i].amount = orders[o].price * orders[o].quantity
                 /\ payments[i].payment_method = "wallet"
           /\ gigs.total_orders = 1
           /\ gigs.total_earning = orders[o].price * orders[o].quantity

(***************************************************************************)
(* C14: a deliver call by the order's freelancer with a non-empty file     *)
(* list on an order whose status is in_progress or revision_requested      *)
(* passes its checks and goes on to write the status delivered.            *)
(***************************************************************************)
C14_DeliverFromRevisionRequested ==
    [][\A t \in Threads :
          (/\ Began(t) /\ BegunOp(t) = "deliver_order"
           /\ orders[BegunOid(t)] # NoOrder
           /\ orders[BegunOid(t)].status \in {"in_progress", "revision_requested"}
           /\ BegunUser(t) = orders[BegunOid(t)].freelancer_id
           /\ ~(Returned(t) /\ result'[t].err = "Files required"))
          => /\ pc'[t] = "update"
             /\ cur'[t].a > 0]_vars

(***************************************************************************)
(* C15: completed_at and cancelled_at of an order are never both set;      *)
(* completed_at is set only on a completed order and cancelled_at only on  *)
(* a cancelled order.                                                      *)
(***************************************************************************)
C15_TerminalTimestampsExclusive ==
    \A o \in OrderIds :
        orders[o] # NoOrder
        => /\ ~(orders[o].completed_at # Null /\ orders[o].cancelled_at # Null)
           /\ orders[o].completed_at # Null => orders[o].status = "completed"
           /\ orders[o].cancelled_at # Null => orders[o].status = "cancelled"

(***************************************************************************)
(* C16: when the ledger insert or the statistics increment of a complete   *)
(* call raises, the call returns a failure, never a success, and the       *)
(* orders stay as they are: the status written before is not rolled back.  *)
(***************************************************************************)
\* thread t leaves complete_order at its ledger or statistics write
\* without having done the write
SideEffectFailed(t) ==
    /\ cur[t].op = "complete_order" /\ pc[t] \in {"payment", "gig"}
    /\ pc'[t] = "idle"

C16_SideEffectFailureIsReturned ==
    [][\A t \in Threads :
          SideEffectFailed(t)
          => /\ Returned(t)
             /\ ~result'[t].ok
             /\ result'[t].op = "complete_order"
             /\ orders' = orders]_vars

C16_Witness ==
    \E t \in Threads :
        /\ result[t].op = "complete_order"
        /\ result[t].seen = "delivered"
        /\ ~result[t].ok
        /\ result[t].err = "PyMongoError"
        /\ orders[result[t].oid].status = "completed"
        /\ Releases(result[t].oid) = {}

(***************************************************************************)
(* C17: every order whose status became completed eventually has exactly   *)
(* one release entry in the ledger and is counted once by the gig, also    *)
(* when a ledger or statistics write raised and the client calls complete  *)
(* again.                                                                  *)
(***************************************************************************)
C17_SideEffectsNeverLost ==
    \A o \in OrderIds :
        (orders[o] # NoOrder /\ orders[o].status = "completed")
        ~> (Cardinality(Releases(o)) = 1 /\ gigs.total_orders = 1)

(***************************************************************************)
(* C18: the call of a handler that changes the status appends, when it     *)
(* succeeds, exactly one timeline entry named after its action whose       *)
(* user_id is the acting user; a call that changes no status appends no    *)
(* transition entry.                                                       *)
(***************************************************************************)
\* the handlers whose call sets the status of the order
StatusChanging ==
    {"confirm_order", "start_order", "deliver_order", "request_revision",
     "complete_order", "dispute_order", "cancel_order", "resolve_dispute"}

\* thread t returns success from the call c in this step
Succeeds(t) == pc[t] = "timeline" /\ pc'[t] = "idle" /\ result'[t].ok

C18_OneEntryPerTransition ==
    [][\A t \in Threads :
          (Succeeds(t) /\ orders[cur[t].oid] # NoOrder)
          => LET c == cur[t]
                 before == orders[c.oid].timeline
                 after == orders'[c.oid].timeline
             IN IF c.op \in StatusChanging
                THEN /\ Len(after) = Len(before) + 1
                     /\ SubSeq(after, 1, Len(before)) = before
                     /\ after[Len(after)].action = TimelineAction(c.op)
                     /\ after[Len(after)].user_id \in Users
                ELSE c.op = "accept_delivery" => after = before]_vars

(***************************************************************************)
(* C19: in every step the timeline of an order before the step is a        *)
(* prefix of its timeline after the step.                                  *)
(***************************************************************************)
IsPrefix(s, r) == Len(s) <= Len(r) /\ SubSeq(r, 1, Len(s)) = s

C19_TimelineAppendOnly ==
    [][\A o \in OrderIds :
          orders[o] # NoOrder
          => /\ orders'[o] # NoOrder
             /\ IsPrefix(orders[o].timeline, orders'[o].timeline)]_vars

(***************************************************************************)
(* C20: when no call is running, the statuses named by the timeline        *)
(* entries of an order, in stored order, start at pending, follow the      *)
(* edges of the state machine of section 4.1 and end at the order's        *)
(* status.  Stated for the orders whose creation entry was stored before   *)
(* the entry of any other call.                                            *)
(***************************************************************************)
\* the status an entry records; "" for an entry that records no transition
EntryStatus(action) ==
    CASE action = "order_created"      -> "pending"
      [] action = "order_confirmed"    -> "accepted"
      [] action = "order_started"      -> "in_progress"
      [] action = "order_delivered"    -> "delivered"
      [] action = "revision_requested" -> "revision_requested"
      [] action = "order_completed"    -> "completed"
      [] action = "order_disputed"     -> "disputed"
      [] action = "order_cancelled"    -> "cancelled"
      [] action = "dispute_resolved"   -> "resolved"
      [] OTHER -> ""

RecordsTransition(e) == EntryStatus(e.action) # ""

\* the status history the timeline replays to
Replay(timeline) ==
    LET entries == SelectSeq(timeline, RecordsTransition)
    IN [i \in DOMAIN entries |-> EntryStatus(entries[i].action)]

C20_TimelineReplaysToStatus ==
    \A o \in OrderIds :
        (/\ orders[o] # NoOrder /\ NoCallRunning
         /\ orders[o].timeline # <<>>
         /\ orders[o].timeline[1].action = "order_created")
        => LET h == Replay(orders[o].timeline)
           IN /\ h[1] = "pending"
              /\ \A i \in 1..(Len(h) - 1) : <<h[i], h[i + 1]>> \in Edges
              /\ h[Len(h)] = orders[o].status

(***************************************************************************)
(* C22: create_order with price 100 and quantity 2, confirm by the client, *)
(* start by the freelancer, deliver by the freelancer with a file and      *)
(* complete by the client each pass their checks when the order has the    *)
(* status they start from; once the five calls have returned the status is *)
(* completed, the ledger holds one entry for the order (amount 200,        *)
(* wallet, released) and the gig has total_orders 1 and total_earning 200. *)
(***************************************************************************)
ScenarioA ==
    <<"order_created", "order_confirmed", "order_started", "order_delivered",
      "order_completed">>

\* thread t takes the call of scenario A that the order's status is due for
ScenarioCallDue(t) ==
    /\ Began(t)
    /\ BegunOid(t) \in OrderIds
    /\ orders[BegunOid(t)] # NoOrder
    /\ LET order == orders[BegunOid(t)]
           op == BegunOp(t)
           u == BegunUser(t)
       IN \/ op = "confirm_order" /\ order.status = "pending" /\ u = order.client_id
          \/ op = "start_order" /\ order.status = "accepted" /\ u = order.freelancer_id
          \/ /\ op = "deliver_order" /\ order.status = "in_progress"
             /\ u = order.freelancer_id
             /\ ~(Returned(t) /\ result'[t].err = "Files required")
          \/ op = "complete_order" /\ order.status = "delivered" /\ u = order.client_id

ScenarioADone(o) ==
    /\ orders[o] # NoOrder
    /\ Actions(orders[o].timeline) = ScenarioA
    /\ orders[o].price = 100 /\ orders[o].quantity = 2
    /\ NoCallRunning

C22_ScenarioA ==
    /\ [](\A o \in OrderIds :
            ScenarioADone(o)
            => /\ orders[o].status = "completed"
               /\ Cardinality(Releases(o)) = 1
               /\ \A i \in Releases(o) :
                     /\ payments[i].amount = 200
                     /\ payments[i].payment_method = "wallet"
               /\ gigs = [total_orders |-> 1, total_earning |-> 200])
    /\ [][\A t \in Threads : ScenarioCallDue(t) => pc'[t] # "idle"]_vars

C22_Witness ==
    \E o \in OrderIds :
        /\ ScenarioADone(o)
        /\ orders[o].status = "completed"
        /\ Len(payments) = 1 /\ payments[1].amount = 200
        /\ gigs.total_earning = 200

(***************************************************************************)
(* C24: a request_revision call by the client on a delivered order goes    *)
(* on only with a non-empty reason; with an empty or missing reason it     *)
(* returns the failure "Reason required" and leaves the orders as they     *)
(* are.                                                                    *)
(***************************************************************************)
C24_RevisionNeedsReason ==
    [][\A t \in Threads :
          (/\ Began(t) /\ BegunOp(t) = "request_revision"
           /\ orders[BegunOid(t)].status = "delivered"
           /\ BegunUser(t) = orders[BegunOid(t)].client_id)
          => IF pc'[t] # "idle"
             THEN cur'[t].a # 0
             ELSE /\ ~result'[t].ok
                  /\ result'[t].err = "Reason required"
                  /\ orders' = orders]_vars

C24_Witness ==
    \E t \in Threads :
        /\ result[t].op = "request_revision"
        /\ result[t].err = "Reason required"
        /\ ~result[t].ok
        /\ orders[result[t].oid].status = "delivered"
        /\ result[t].user = orders[result[t].oid].client_id

(***************************************************************************)
(* C28: total_orders and total_earning of the gig never decrease.          *)
(***************************************************************************)
C28_GigCountersNeverDecrease ==
    [][/\ gigs'.total_orders >= gigs.total_orders
       /\ gigs'.total_earning >= gigs.total_earning]_vars

(***************************************************************************)
(* C23: a call of a transition handler on a cancelled order fails and      *)
(* leaves the status cancelled.                                            *)
(***************************************************************************)
C23_CancelledIsFinal ==
    [][\A t \in Threads :
          (/\ Began(t)
           /\ BegunOp(t) \in StatusChanging
           /\ orders[BegunOid(t)].status = "cancelled"
           /\ orders[BegunOid(t)].cancelled_at # Null)
          => /\ Returned(t)
             /\ ~result'[t].ok
             /\ orders'[BegunOid(t)].status = "cancelled"]_vars

(***************************************************************************)
(* C25: the status of every stored order is one of the ten values of the   *)
(* data model.                                                             *)
(***************************************************************************)
Statuses ==
    {"pending", "accepted", "in_progress", "delivered", "revision_requested",
     "completed", "disputed", "resolved", "cancelled", "rejected"}

C25_StatusInDomain ==
    \A o \in OrderIds : orders[o] # NoOrder => orders[o].status \in Statuses

(***************************************************************************)
(* C26: a call of any handler but create_order with the id of an order     *)
(* that does not exist returns a failure and writes nothing.               *)
(***************************************************************************)
C26_AbsentOrderFails ==
    [][\A t \in Threads :
          (/\ Began(t)
           /\ BegunOp(t) # "create_order"
           /\ orders[BegunOid(t)] = NoOrder)
          => /\ Returned(t)
             /\ ~result'[t].ok
             /\ UNCHANGED <<orders, payments, gigs>>]_vars

(***************************************************************************)
(* C27: an order is inserted only with price >= 0 and quantity >= 1, and   *)
(* starts with status pending, no delivery files and null workflow         *)
(* timestamps.                                                             *)
(***************************************************************************)
C27_CreateValidatesPriceAndQuantity ==
    [][\A o \in OrderIds :
          (orders[o] = NoOrder /\ orders'[o] # NoOrder)
          => /\ orders'[o].price >= 0
             /\ orders'[o].quantity >= 1
             /\ orders'[o].status = "pending"
             /\ orders'[o].delivery_files = <<>>
             /\ orders'[o].started_at = Null /\ orders'[o].delivered_at = Null
             /\ orders'[o].completed_at = Null /\ orders'[o].cancelled_at = Null]_vars

(***************************************************************************)
(* C21: when the call of a transition handler leaves its timeline append   *)
(* without having appended the entry, the orders stay as they are (the     *)
(* status written before is kept) and the call returns success, not an     *)
(* error or an exception.                                                  *)
(***************************************************************************)
TimelineAppendFailed(t) ==
    /\ pc[t] \in {"timeline", "rpc_timeline"}
    /\ cur[t].op # "create_order"
    /\ pc'[t] = "idle"
    /\ orders[cur[t].oid] # NoOrder
    /\ orders'[cur[t].oid].timeline = orders[cur[t].oid].timeline

C21_TimelineFailureIsSwallowed ==
    [][\A t \in Threads :
          TimelineAppendFailed(t)
          => /\ Returned(t)
             /\ result'[t].ok
             /\ orders' = orders]_vars

(***************************************************************************)
(* C29: no call ends with an exception that leaves the handler: every      *)
(* result is a success value or a returned failure.                        *)
(***************************************************************************)
C29_NoExceptionEscapes ==
    \A t \in Threads : result[t].err \notin RaisedErrors

(***************************************************************************)
(* The transition table of the workNet2 service, as pairs.                 *)
(***************************************************************************)
TableEdges ==
    {<<"pending", "in_progress">>, <<"pending", "cancelled">>,
     <<"in_progress", "completed">>, <<"in_progress", "disputed">>,
     <<"in_progress", "cancelled">>,
     <<"disputed", "completed">>, <<"disputed", "cancelled">>}

\* thread t returns from update_status or cancel in this step
StatusCallReturned(t) ==
    Returned(t) /\ result'[t].op \in {"update_status", "cancel"}

\* the step moves order o to a status the table does not allow from its own
ReopenedOrder(o) ==
    /\ StatusOf(o) \in {"completed", "cancelled"}
    /\ orders'[o] # orders[o]

(***************************************************************************)
(* C30: in the workNet2 service, update_status and cancel change the       *)
(* status of an order only along the transition table; a completed or      *)
(* cancelled order is never changed again; and a call that returns         *)
(* success=False leaves the orders unchanged, so a call returns success    *)
(* only on a step that moves the order along the table.                    *)
(***************************************************************************)
C30_StatusFollowsTable ==
    [][ /\ \A o \in OrderIds :
             /\ StatusOf(o)' # StatusOf(o) =>
                    <<StatusOf(o), StatusOf(o)'>> \in TableEdges
             /\ ~ReopenedOrder(o)
        /\ \A t \in Threads :
             StatusCallReturned(t) =>
                IF result'[t].ok
                THEN /\ result'[t].oid \in OrderIds
                     /\ orders'[result'[t].oid].status # StatusOf(result'[t].oid)
                ELSE orders' = orders ]_vars

\* a request on a completed order was refused and the order is still completed
C30_Witness ==
    \E t \in Threads :
        /\ result[t].op \in {"update_status", "cancel"}
        /\ result[t].seen = "completed"
        /\ ~result[t].ok
        /\ StatusOf(result[t].oid) = "completed"
        /\ orders[result[t].oid].completedAt # Null

\* what the seller of order o was credited in all
CreditOf(o) == users[orders[o].sellerId].totalEarnings

(***************************************************************************)
(* C31: in the workNet2 service the seller of an order is credited with    *)
(* the price of the order when update_status completes it, and that once:  *)
(* in every state the seller's totalEarnings is the price of the order if  *)
(* the order is completed and nothing otherwise, whatever update_status    *)
(* calls ran or overlapped.                                                *)
(***************************************************************************)
C31_SellerCreditedOnce ==
    \A o \in OrderIds :
        CreditOf(o) = IF StatusOf(o) = "completed" THEN orders[o].price ELSE 0

\* thread t returns from the payment handler op in this step
PaymentCallReturned(t, op) == Returned(t) /\ result'[t].op = op

(***************************************************************************)
(* C32: refund succeeds only on a stored payment whose status is completed *)
(* and with an amount that is not above the amount of the payment; a       *)
(* refund that returns success=False leaves the payments and the earnings  *)
(* of every user unchanged.                                                *)
(***************************************************************************)
C32_RefundChecks ==
    [][ \A t \in Threads :
          PaymentCallReturned(t, "refund") =>
             IF result'[t].ok
             THEN /\ result'[t].oid \in DOMAIN payments
                  /\ payments[result'[t].oid].status = "completed"
                  /\ payments'[result'[t].oid].status = "refunded"
                  /\ payments'[result'[t].oid].refundAmount
                        <= payments[result'[t].oid].amount
             ELSE payments' = payments /\ users' = users ]_vars

\* a refund above the amount of a completed payment was refused
C32_Witness ==
    \E t \in Threads :
        /\ result[t].op = "refund"
        /\ ~result[t].ok
        /\ result[t].err = "Refund amount cannot exceed original payment"
        /\ payments[result[t].oid].status = "completed"
        /\ payments[result[t].oid].refundAmount = Null

(***************************************************************************)
(* C33: process never moves a completed payment to a status other than     *)
(* refunded.  No step takes a completed payment to pending, failed or      *)
(* completed again; a process call that returns success either found the   *)
(* payment not completed or left it refunded; and a process call that      *)
(* returns success=False leaves the payments, the orders and the earnings  *)
(* unchanged.                                                              *)
(***************************************************************************)
C33_CompletedPaymentOnlyRefunded ==
    [][ /\ \A p \in DOMAIN payments :
             (payments[p].status = "completed" /\ payments'[p] # payments[p])
                => payments'[p].status = "refunded"
        /\ \A t \in Threads :
             PaymentCallReturned(t, "process") =>
                IF result'[t].ok
                THEN \/ payments[result'[t].oid].status # "completed"
                     \/ payments'[result'[t].oid].status = "refunded"
                ELSE payments' = payments /\ orders' = orders /\ users' = users
      ]_vars

\* a request to change a completed payment was refused and changed nothing
C33_Witness ==
    \E t \in Threads :
        /\ result[t].op = "process"
        /\ ~result[t].ok
        /\ result[t].err = "Cannot change status from completed"
        /\ payments[result[t].oid].status = "completed"

(***************************************************************************)
(* C38: processing a payment never moves its order out of a terminal       *)
(* status: on the step on which process returns, an order that was         *)
(* completed or cancelled keeps its status, and a status the order takes   *)
(* is one the transition table of the order service allows from the        *)
(* status it had.                                                          *)
(***************************************************************************)
C38_ProcessKeepsOrderTable ==
    [][ (\E t \in Threads : PaymentCallReturned(t, "process")) =>
           \A o \in OrderIds :
              /\ StatusOf(o) \in {"completed", "cancelled"} =>
                    orders'[o].status = StatusOf(o)
              /\ orders'[o].status # StatusOf(o) =>
                    <<StatusOf(o), orders'[o].status>> \in TableEdges ]_vars

(***************************************************************************)
(* C39: over any process, refund and update_status calls the seller is     *)
(* credited for an order at most once and refunds deduct no more than was  *)
(* credited: the seller's totalEarnings, which starts at nothing and is    *)
(* moved by the one order only, is never below nothing and never above     *)
(* one credit, the price of the order.                                     *)
(***************************************************************************)
C39_CreditedAtMostOnce ==
    \A o \in OrderIds :
        /\ CreditOf(o) >= 0
        /\ CreditOf(o) <= orders[o].price

\* the fields of an order only create_order and the transition handlers set
ProtectedFields == {"status", "client_id", "freelancer_id", "gig_id", "created_at"}

(***************************************************************************)
(* C34: the generic update operations assign none of the protected fields  *)
(* of an existing order: a step of update_order or update_order_admin      *)
(* leaves status, client_id, freelancer_id, gig_id and created_at as they  *)
(* were; and no step removes a stored order.                               *)
(***************************************************************************)
C34_UpdateKeepsProtectedFields ==
    [][ \A o \in OrderIds :
          orders[o] # NoOrder =>
             /\ orders'[o] # NoOrder
             /\ \A t \in Threads :
                  (Began(t) /\ BegunOp(t) \in {"update_order", "update_order_admin"})
                     => \A f \in ProtectedFields : orders'[o][f] = orders[o][f]
      ]_vars

\* the statuses an order can only have after a successful start
StartedStatuses == {"in_progress", "delivered", "revision_requested"}

(***************************************************************************)
(* C35: a successful start sets started_at and expected_delivery: in every *)
(* state an order that is in_progress, delivered or revision_requested has *)
(* both set; and a start_order call given no date or a date that does not  *)
(* parse returns a failure.                                                *)
(***************************************************************************)
C35_StartedOrdersHaveDates ==
    /\ \A o \in OrderIds :
          StatusOf(o) \in StartedStatuses =>
             /\ orders[o].started_at # Null
             /\ orders[o].expected_delivery # Null
    /\ \A t \in Threads :
          (cur[t].op = "start_order" /\ pc[t] # "idle") =>
             cur[t].val \notin {Null, BadDate}

\* thread t does the write of extend_deadline in this step
DeadlineWritten(t) == At(t, "extend_deadline", "update") /\ pc'[t] # pc[t]

(***************************************************************************)
(* C36: extend_deadline on an order with no expected_delivery returns a    *)
(* state error and changes nothing; its write sets expected_delivery to    *)
(* the value the order had plus the days asked for and leaves every other  *)
(* field but the timeline as it was.                                       *)
(***************************************************************************)
C36_ExtendAddsDays ==
    [][ \A t \in Threads :
          /\ ( /\ Began(t) /\ BegunOp(t) = "extend_deadline"
               /\ orders[BegunOid(t)] # NoOrder
               /\ orders[BegunOid(t)].expected_delivery = Null )
             => /\ Returned(t) /\ ~result'[t].ok
                /\ result'[t].err \in StateErrors
                /\ orders' = orders
          /\ DeadlineWritten(t)
             => /\ orders'[cur[t].oid].expected_delivery
                     = orders[cur[t].oid].expected_delivery + cur[t].a
                /\ [orders'[cur[t].oid] EXCEPT !.expected_delivery = 0]
                     = [orders[cur[t].oid] EXCEPT !.expected_delivery = 0]
      ]_vars

\* the release entries of the ledger; all orders are on the gig GigId
AllReleases == {i \in DOMAIN payments : payments[i].status = "released"}

\* the sum of the amounts of the release entries among the first n entries
RECURSIVE ReleasedAmount(_)
ReleasedAmount(n) ==
    IF n = 0 THEN 0
    ELSE ReleasedAmount(n - 1)
         + (IF payments[n].status = "released" THEN payments[n].amount ELSE 0)

(***************************************************************************)
(* C37: in every state in which no complete call is running, the gig's     *)
(* total_orders is the number of release entries of the ledger, its        *)
(* total_earning is the sum of their amounts, and the amount of each       *)
(* release entry is price x quantity of its order.                         *)
(***************************************************************************)
C37_GigMatchesLedger ==
    ~CompleteInFlight =>
        /\ gigs.total_orders = Cardinality(AllReleases)
        /\ gigs.total_earning = ReleasedAmount(Len(payments))
        /\ \A i \in AllReleases :
              payments[i].amount
                 = orders[payments[i].order_id].price
                     * orders[payments[i].order_id].quantity

====
